---- MODULE Spec2Model ----
(***************************************************************************)
(* A model of the core subsystems of `packs`:                              *)
(*                                                                         *)
(*   - the Pack Ownership Index, src/src/packs/pack_set.rs (PackSet::build,*)
(*     for_file, for_pack, root_pack), checked under PackSetSpec;          *)
(*   - the Reference & Definition Extractor, src/src/packs/parser.rs       *)
(*     (ReferenceCollector, calculate_module_nesting,                      *)
(*     extract_from_contents), checked under ParserSpec (files of every    *)
(*     kind of node) and ScopeSpec (deeper files whose names all resolve); *)
(*   - the File Scanner, get_references / extract_from_path of parser.rs,   *)
(*     checked under GetReferencesSpec (worker threads over the files).    *)
(*                                                                         *)
(* Pack names are Rust Strings whose bytes matter (length, byte order,     *)
(* trailing '/'): they are modelled as sequences of one-character strings. *)
(* Paths (PathBuf) are only join keys and are modelled as opaque strings.  *)
(* Constant names are Rust Strings built from identifiers and "::": they   *)
(* are modelled as sequences of lexemes, <<"Foo", "::", "Bar">> being      *)
(* "Foo::Bar" and <<>> the empty string. An identifier holds no ':', so    *)
(* two names are the same String exactly when they are the same sequence.  *)
(* A parsed node carries its expression_l, the byte range of its text in   *)
(* the file, and a file carries the byte offsets its lines start at.       *)
(***************************************************************************)
EXTENDS Integers, Sequences, FiniteSets, TLC

VARIABLES
    \* ---- pack_set.rs ----
    input_packs,      \* the HashSet<Pack> handed to PackSet::build
    input_files,      \* the HashMap<PathBuf, PathBuf> handed to PackSet::build
    built,            \* "no" before build, "yes" after it returned, "panic" if it panicked
    pack_set,         \* the PackSet value (its four fields)
    last,             \* the last call made and what it returned
    \* ---- parser.rs ----
    source,           \* the nodes of the file met so far, in lexical order, as parsed
    lookup,           \* LineColLookup: the byte offsets at which the lines of the file start
    open,             \* the class/module nodes whose body is being traversed (the call stack)
    current_namespaces, \* ReferenceCollector.current_namespaces
    references,       \* ReferenceCollector.references
    definitions,      \* ReferenceCollector.definitions
    phase,            \* "visiting", "done" (extract_from_contents returned) or "panic"
    extracted,        \* the Vec<Reference> extract_from_contents returns
    \* ---- parser.rs: get_references ----
    absolute_root,    \* the root get_references is called with
    contents,         \* the file system: what each entry of the glob is and holds
    entries,          \* the paths the glob iterator has yet to yield
    task,             \* per worker thread: the extract_from_path call it runs
    folded,           \* per worker thread: the Vec<Reference> it has gathered
    collected,        \* the Vec<Reference> get_references returns
    scan_phase        \* "idle", "called", "running", "done" (get_references returned) or "panic"

pack_vars == <<input_packs, input_files, built, pack_set, last>>
parser_vars == <<source, lookup, open, current_namespaces, references, definitions, phase, extracted>>
scan_vars == <<absolute_root, contents, entries, task, folded, collected, scan_phase>>
vars == <<pack_vars, parser_vars, scan_vars>>

(***************************************************************************)
(* Bounds                                                                  *)
(***************************************************************************)
\* largest number of packs in the input HashSet
MaxPacks == 3
\* largest number of trailing separators appended to a name in a for_pack query
MaxSlashes == 2
\* largest number of nodes in a parsed file (ParserSpec: every kind of node)
MaxNodes == 3
\* largest number of nodes in a parsed file (ScopeSpec: resolvable names only)
MaxScopeNodes == 4
\* deepest nesting of class/module bodies in a parsed file
MaxDepth == 3
\* the files the glob pattern matches
MaxFiles == 3
\* the worker threads of the rayon pool
MaxWorkers == 2

(***************************************************************************)
(* Strings (std)                                                           *)
(***************************************************************************)
\* The byte of each character used in a pack name (ASCII).
Byte(c) ==
    CASE c = "." -> 46
      [] c = "/" -> 47
      [] c = "a" -> 97
      [] c = "b" -> 98

\* Ord::cmp on usize
CmpInt(x, y) == IF x < y THEN "Less" ELSE IF x > y THEN "Greater" ELSE "Equal"

\* String::cmp: lexicographic on bytes, a proper prefix is smaller
RECURSIVE CmpStr(_, _)
CmpStr(s, t) ==
    IF s = <<>> /\ t = <<>> THEN "Equal"
    ELSE IF s = <<>> THEN "Less"
    ELSE IF t = <<>> THEN "Greater"
    ELSE IF Byte(Head(s)) < Byte(Head(t)) THEN "Less"
    ELSE IF Byte(Head(s)) > Byte(Head(t)) THEN "Greater"
    ELSE CmpStr(Tail(s), Tail(t))

\* Ordering::then_with
ThenWith(first, second) == IF first = "Equal" THEN second ELSE first

\* A bug of for_pack: strip a single trailing '/' only (str::strip_suffix).
TrimOneTrailingSlash(s) ==
    IF s # <<>> /\ s[Len(s)] = "/" THEN SubSeq(s, 1, Len(s) - 1) ELSE s

\* A bug of for_pack: look the name up as given.
NoTrim(s) == s

\* str::trim_end_matches('/'): strip every trailing '/'
RECURSIVE trim_end_matches(_)
trim_end_matches(s) ==
    IF s # <<>> /\ s[Len(s)] = "/"
    THEN trim_end_matches(SubSeq(s, 1, Len(s) - 1))
    ELSE s

(***************************************************************************)
(* Packs and the inputs of PackSet::build                                  *)
(***************************************************************************)
RootName == <<".">>

\* the pack names the inputs are drawn from
PackNames == { <<".">>, <<"a">>, <<"b">>, <<"a", "/">>, <<"a", "/", "b">> }

\* the package.yml paths, the analysed files, the recorded violations
Ymls == {"y1", "y2", "y3"}
Files == {"f1", "f2"}

\* Pack::all_violations: the violations recorded in the pack's package_todo
all_violations(pack) == pack.violations

\* what a package.yml's pack has recorded (the todo file next to it)
RecordedViolations(yml) ==
    CASE yml = "y1" -> {"v1"}
      [] yml = "y2" -> {"v1", "v2"}
      [] OTHER -> {}

Pack(name, yml) == [name |-> name, yml |-> yml, violations |-> RecordedViolations(yml)]

\* Pack::default()
DefaultPack == [name |-> <<>>, yml |-> "", violations |-> {}]

\* The sets of names of the pack collections build is given: pack names are
\* unique within a set.
NameSets == { ns \in SUBSET PackNames : Cardinality(ns) <= MaxPacks }

\* The file -> package.yml mappings build is given (a HashMap: keys unique).
FileMaps == UNION { [fs -> Ymls] : fs \in SUBSET Files }

\* The iteration orders of a HashSet: every arrangement of its elements.
Orders(S) ==
    { o \in [1..Cardinality(S) -> S] : \A i, j \in 1..Cardinality(S) : i # j => o[i] # o[j] }

(***************************************************************************)
(* PackSet::build                                                          *)
(***************************************************************************)
\* HashMap::insert: the new value replaces the one stored under the key
Insert(map, key, value) ==
    [k \in (DOMAIN map) \cup {key} |-> IF k = key THEN value ELSE map[k]]

EmptyMap == [k \in {} |-> {}]

\* A bug of build: compare by name only, forgetting the length.
ComparePacksByNameOnly(packa, packb) == CmpStr(packa.name, packb.name)

\* the comparator given to sorted_by: name length descending, then name ascending
ComparePacks(packa, packb) ==
    ThenWith(CmpInt(Len(packb.name), Len(packa.name)), CmpStr(packa.name, packb.name))

\* one step of a stable sort: `pack` goes after every element not greater than it
InsertSorted(sorted, pack) ==
    LET k == Cardinality({ i \in 1..Len(sorted) : ComparePacks(sorted[i], pack) # "Greater" })
    IN SubSeq(sorted, 1, k) \o <<pack>> \o SubSeq(sorted, k + 1, Len(sorted))

\* A bug of build: keep the HashSet's iteration order (no sort).
Unsorted(packs) == packs

\* Itertools::sorted_by over the set's iterator: a stable sort by ComparePacks
RECURSIVE sorted_by(_)
sorted_by(packs) ==
    IF packs = <<>> THEN <<>>
    ELSE InsertSorted(sorted_by(SubSeq(packs, 1, Len(packs) - 1)), packs[Len(packs)])

\* the loop over the sorted packs, after its first n iterations
RECURSIVE IndexPacks(_, _)
IndexPacks(packs, n) ==
    IF n = 0
    THEN [indexed_packs_by_name |-> EmptyMap,
          indexed_packs_by_yml  |-> EmptyMap,
          all_violations        |-> {}]
    ELSE LET prev == IndexPacks(packs, n - 1)
             pack == packs[n]
         IN [indexed_packs_by_name |-> Insert(prev.indexed_packs_by_name, pack.name, pack),
             indexed_packs_by_yml  |-> Insert(prev.indexed_packs_by_yml, pack.yml, pack.name),
             all_violations        |-> prev.all_violations \cup all_violations(pack)]

\* A bug of build: record the owner of every file, recognised config or not.
OwnersOfAllFiles(owning_package_yml_for_file, indexed_packs_by_yml) ==
    [file \in DOMAIN owning_package_yml_for_file |->
        IF owning_package_yml_for_file[file] \in DOMAIN indexed_packs_by_yml
        THEN indexed_packs_by_yml[owning_package_yml_for_file[file]]
        ELSE RootName]

\* the loop over (file, package_yml): files of an unrecognised config get no entry
OwningPackNameForFile(owning_package_yml_for_file, indexed_packs_by_yml) ==
    [file \in { f \in DOMAIN owning_package_yml_for_file :
                  owning_package_yml_for_file[f] \in DOMAIN indexed_packs_by_yml } |->
        indexed_packs_by_yml[owning_package_yml_for_file[file]]]

\* A bug of build: never check for the root pack.
NoRootCheck(indexed_packs) == FALSE

\* build panics when the name index has no "." entry
RootMissing(indexed_packs) == RootName \notin DOMAIN indexed_packs

\* #[derive(Default)] PackSet
DefaultPackSet ==
    [packs |-> <<>>, indexed_packs |-> EmptyMap,
     owning_pack_name_for_file |-> EmptyMap, all_violations |-> {}]

\* PackSet::build(packs, owning_package_yml_for_file); `order` is the order in
\* which the HashSet yields its packs
build(order, owning_package_yml_for_file) ==
    LET packs == sorted_by(order)
        idx == IndexPacks(packs, Len(packs))
        owning_pack_name_for_file ==
            OwningPackNameForFile(owning_package_yml_for_file, idx.indexed_packs_by_yml)
        indexed_packs == idx.indexed_packs_by_name
    IN IF RootMissing(indexed_packs)
       THEN [panic |-> TRUE, pack_set |-> DefaultPackSet]
       ELSE [panic |-> FALSE,
             pack_set |-> [indexed_packs |-> indexed_packs,
                           packs |-> packs,
                           all_violations |-> idx.all_violations,
                           owning_pack_name_for_file |-> owning_pack_name_for_file]]

(***************************************************************************)
(* Lookups                                                                 *)
(***************************************************************************)
\* PackSet::for_pack: Ok(&Pack) or Err("No pack found.")
for_pack(self, pack_name) ==
    LET trimmed == trim_end_matches(pack_name)
    IN IF trimmed \in DOMAIN self.indexed_packs
       THEN [tag |-> "Ok", pack |-> self.indexed_packs[trimmed]]
       ELSE [tag |-> "Err", pack |-> DefaultPack]

\* A bug of for_file: answer with the root pack whatever the recorded owner.
for_file_root(self, absolute_file_path) ==
    IF absolute_file_path \in DOMAIN self.owning_pack_name_for_file
    THEN [tag |-> "Some", pack |-> self.indexed_packs[RootName]]
    ELSE [tag |-> "None", pack |-> DefaultPack]

\* PackSet::for_file: Some(&Pack), None, or a panic when the recorded owner
\* is not found by for_pack
for_file(self, absolute_file_path) ==
    IF absolute_file_path \in DOMAIN self.owning_pack_name_for_file
    THEN LET found == for_pack(self, self.owning_pack_name_for_file[absolute_file_path])
         IN IF found.tag = "Ok"
            THEN [tag |-> "Some", pack |-> found.pack]
            ELSE [tag |-> "Panic", pack |-> DefaultPack]
    ELSE [tag |-> "None", pack |-> DefaultPack]

\* PackSet::root_pack: &Pack, or a panic when "." is not indexed
root_pack(self) ==
    IF RootName \in DOMAIN self.indexed_packs
    THEN [tag |-> "Ref", pack |-> self.indexed_packs[RootName]]
    ELSE [tag |-> "Panic", pack |-> DefaultPack]

(***************************************************************************)
(* The calls a client makes                                                *)
(***************************************************************************)
RECURSIVE Slashes(_)
Slashes(k) == IF k = 0 THEN <<>> ELSE <<"/">> \o Slashes(k - 1)

\* the names for_pack is asked for: known and unknown names, with 0..MaxSlashes
\* separators appended
QueryNames == { n \o Slashes(k) : n \in PackNames \cup {<<"b", "/", "a">>}, k \in 0..MaxSlashes }

\* the paths for_file is asked for: the mapped files and one that never is
QueryPaths == Files \cup {"f0"}

NoCall == [op |-> "none", arg |-> "", res |-> [tag |-> "None", pack |-> DefaultPack]]

Build(order, files) ==
    /\ input_packs' = { order[i] : i \in 1..Len(order) }
    /\ input_files' = files
    /\ LET b == build(order, files)
       IN /\ built' = IF b.panic THEN "panic" ELSE "yes"
          /\ pack_set' = b.pack_set
          /\ last' = [op |-> "build", arg |-> "",
                      res |-> [tag |-> IF b.panic THEN "Panic" ELSE "Built", pack |-> DefaultPack]]
    /\ UNCHANGED <<parser_vars, scan_vars>>

ForPack(pack_name) ==
    /\ last' = [op |-> "for_pack", arg |-> pack_name, res |-> for_pack(pack_set, pack_name)]
    /\ UNCHANGED <<input_packs, input_files, built, pack_set, parser_vars, scan_vars>>

ForFile(path) ==
    /\ last' = [op |-> "for_file", arg |-> path, res |-> for_file(pack_set, path)]
    /\ UNCHANGED <<input_packs, input_files, built, pack_set, parser_vars, scan_vars>>

RootPack ==
    /\ last' = [op |-> "root_pack", arg |-> "", res |-> root_pack(pack_set)]
    /\ UNCHANGED <<input_packs, input_files, built, pack_set, parser_vars, scan_vars>>

ParserIdle ==
    /\ source = <<>>
    /\ lookup = <<0>>
    /\ open = <<>>
    /\ current_namespaces = <<>>
    /\ references = <<>>
    /\ definitions = <<>>
    /\ phase = "visiting"
    /\ extracted = <<>>

\* the paths glob yields, in the alphabetical order it yields them
Paths == 1..MaxFiles

\* the threads of the rayon pool
Workers == 1..MaxWorkers

\* the ReferenceCollector extract_from_contents starts every file with
NewCollector ==
    [references |-> <<>>,
     definitions |-> <<>>,
     current_namespaces |-> <<>>,
     panicked |-> FALSE]

\* a worker thread between two closure calls
IdleTask == [status |-> "idle", path |-> 0, pc |-> 0, collector |-> NewCollector, open |-> <<>>]

ScanIdle ==
    /\ absolute_root = <<>>
    /\ contents = [path \in Paths |-> [kind |-> "file", events |-> <<>>, lookup |-> <<0>>]]
    /\ entries = <<>>
    /\ task = [w \in Workers |-> IdleTask]
    /\ folded = [w \in Workers |-> <<>>]
    /\ collected = <<>>
    /\ scan_phase = "idle"

PackSetInit ==
    /\ input_packs = {}
    /\ input_files = EmptyMap
    /\ built = "no"
    /\ pack_set = DefaultPackSet
    /\ last = NoCall
    /\ ParserIdle
    /\ ScanIdle

\* build is called once, on a fresh process
CanBuild == built = "no"

\* A lookup takes &self and changes nothing of the PackSet, so a behaviour
\* makes one lookup on the set it built: longer call sequences reach no
\* other PackSet and no other answer.
CanLookup == built = "yes" /\ last.op = "build"

PackSetNext ==
    \/ /\ CanBuild
       /\ \E names \in NameSets, files \in FileMaps :
             \E ymlOf \in [names -> Ymls], order \in Orders(names) :
                Build([i \in 1..Len(order) |-> Pack(order[i], ymlOf[order[i]])], files)
    \/ CanLookup /\ \E pack_name \in QueryNames : ForPack(pack_name)
    \/ CanLookup /\ \E path \in QueryPaths : ForFile(path)
    \/ CanLookup /\ RootPack

PackSetSpec == PackSetInit /\ [][PackSetNext]_vars

(***************************************************************************)
(* Properties of the Pack Ownership Index                                  *)
(***************************************************************************)
InputNames == { p.name : p \in input_packs }

EndsWithSlash(s) == s # <<>> /\ s[Len(s)] = "/"

\* HashMap::get on the name index, as a for_pack answer
Lookup(key) ==
    IF key \in DOMAIN pack_set.indexed_packs
    THEN [tag |-> "Ok", pack |-> pack_set.indexed_packs[key]]
    ELSE [tag |-> "Err", pack |-> DefaultPack]

\* C1: build panics exactly when the input holds no pack named "."; when it
\* returns, root_pack() returns the input pack named "." and does not panic.
C1_BuildFailsIffNoRoot ==
    /\ built # "no" => (built = "panic" <=> RootName \notin InputNames)
    /\ built = "panic" => pack_set = DefaultPackSet
    /\ last.op = "root_pack" =>
          /\ last.res.tag = "Ref"
          /\ last.res.pack.name = RootName
          /\ last.res.pack \in input_packs

C1_Witness ==
    /\ last.op = "root_pack"
    /\ last.res.tag = "Ref"
    /\ Cardinality(input_packs) > 1

\* C2 as claimed: for_pack looks the name up with exactly one trailing '/'
\* removed, so "a//" is looked up as "a/".
C2_TrimsExactlyOne ==
    last.op = "for_pack" => last.res = Lookup(TrimOneTrailingSlash(last.arg))

\* C2, amended: for_pack looks the name up with every trailing '/' removed:
\* the key is the longest prefix of the argument that does not end in '/',
\* and what follows it in the argument is separators only.
C2_TrimsAllTrailing ==
    last.op = "for_pack" =>
        \E k \in 0..Len(last.arg) :
            LET key == SubSeq(last.arg, 1, Len(last.arg) - k)
            IN /\ \A i \in (Len(key) + 1)..Len(last.arg) : last.arg[i] = "/"
               /\ ~EndsWithSlash(key)
               /\ last.res = Lookup(key)

C2_Witness ==
    /\ last.op = "for_pack"
    /\ Len(last.arg) >= 3
    /\ last.arg[Len(last.arg)] = "/"
    /\ last.arg[Len(last.arg) - 1] = "/"
    /\ last.res.tag = "Ok"

\* C3: for a pack name n of the set that does not end in '/', for_pack(n) and
\* for_pack(n + "/") both return Ok with the pack indexed under n; a name of
\* which no prefix followed by separators only is indexed gets Err, and
\* for_pack never fails fatally.
C3_TrailingSlashTolerated ==
    last.op = "for_pack" =>
        /\ last.res.tag \in {"Ok", "Err"}
        /\ \A n \in DOMAIN pack_set.indexed_packs :
              (~EndsWithSlash(n) /\ last.arg \in {n, n \o <<"/">>}) =>
                  /\ last.res.tag = "Ok"
                  /\ last.res.pack = pack_set.indexed_packs[n]
                  /\ last.res.pack.name = n
        /\ (\A n \in DOMAIN pack_set.indexed_packs :
               \A k \in 0..Len(last.arg) : last.arg # n \o Slashes(k))
              => last.res.tag = "Err"

C3_Witness ==
    /\ last.op = "for_pack"
    /\ last.arg = <<"a", "/", "b", "/">>
    /\ last.res.tag = "Ok"
    /\ last.res.pack.name = <<"a", "/", "b">>

\* C4 as claimed: after a successful build for_file never panics: it returns
\* a pack or no-owner for every path.
C4_ForFileNeverFatal ==
    last.op = "for_file" => last.res.tag \in {"Some", "None"}

\* C5 as claimed: a file mapped to the yml of an input pack is answered with
\* a pack of that yml; a file mapped to an unrecognised yml, or not mapped at
\* all, is answered with no-owner, and build does not fail because of it.
C5_ForFileFollowsYml ==
    /\ built = "panic" => RootName \notin InputNames
    /\ last.op = "for_file" =>
          IF /\ last.arg \in DOMAIN input_files
             /\ \E p \in input_packs : p.yml = input_files[last.arg]
          THEN /\ last.res.tag = "Some"
               /\ last.res.pack.yml = input_files[last.arg]
               /\ last.res.pack \in input_packs
          ELSE last.res.tag = "None"

\* the answers a PackSet gives to every lookup
Answers(self) ==
    [by_file |-> [f \in QueryPaths |-> for_file(self, f)],
     by_name |-> [q \in QueryNames |-> for_pack(self, q)]]

\* C6: the answers of for_file and for_pack do not depend on the order in
\* which the HashSet yields the packs; and with packs "a" and "a/b", a file
\* mapped to the yml of "a/b" (a yml of no other pack) belongs to "a/b".
C6_OrderIndependent ==
    (built = "yes" /\ last.op = "build") =>
        /\ \A order \in Orders(input_packs) :
              LET other == build(order, input_files)
              IN ~other.panic /\ Answers(other.pack_set) = Answers(pack_set)
        /\ \A pa, pab \in input_packs, f \in DOMAIN input_files :
              ( /\ pa.name = <<"a">>
                /\ pab.name = <<"a", "/", "b">>
                /\ input_files[f] = pab.yml
                /\ \A p \in input_packs \ {pab} : p.yml # pab.yml )
              => /\ for_file(pack_set, f).tag = "Some"
                 /\ for_file(pack_set, f).pack = pab

C6_Witness ==
    /\ built = "yes" /\ last.op = "build"
    /\ \E pa, pab \in input_packs, f \in DOMAIN input_files :
          /\ pa.name = <<"a">>
          /\ pab.name = <<"a", "/", "b">>
          /\ input_files[f] = pab.yml
          /\ \A p \in input_packs \ {pab} : p.yml # pab.yml
    /\ \E p, q \in input_packs : p # q /\ p.yml = q.yml

\* C7: the packs list is ordered by name length descending, names of equal
\* length ascending, and holds exactly the input packs.
C7_PacksSorted ==
    built = "yes" =>
        /\ \A i \in 1..(Len(pack_set.packs) - 1) :
              LET p == pack_set.packs[i]
                  q == pack_set.packs[i + 1]
              IN \/ Len(p.name) > Len(q.name)
                 \/ /\ Len(p.name) = Len(q.name)
                    /\ CmpStr(p.name, q.name) \in {"Less", "Equal"}
        /\ { pack_set.packs[i] : i \in 1..Len(pack_set.packs) } = input_packs
        /\ Len(pack_set.packs) = Cardinality(input_packs)

C7_Witness ==
    /\ built = "yes"
    /\ Len(pack_set.packs) = 3
    /\ Len(pack_set.packs[1].name) > Len(pack_set.packs[2].name)
    /\ Len(pack_set.packs[2].name) = Len(pack_set.packs[3].name)

(***************************************************************************)
(* parser.rs: the syntax tree                                              *)
(*                                                                         *)
(* The file is met node by node in lexical order, which is the order of    *)
(* the Visitor's depth-first traversal. Nodes with the default traversal   *)
(* (def, send, array, begin ...) only pass the visit on to their children: *)
(* the array stands for them.                                              *)
(***************************************************************************)
\* Option::None for a scope, superclass or body
NoNode == [type |-> "None"]

\* Node::Const { scope, name }
Const(scope, name) == [type |-> "Const", scope |-> scope, name |-> name]

\* Node::Cbase, Node::Send, Node::Lvar, Node::Ivar, Node::Self_ and any other
\* expression a constant path can hang off (here a parenthesised one)
Cbase == [type |-> "Cbase"]
Send  == [type |-> "Send"]
Lvar  == [type |-> "Lvar"]
Ivar  == [type |-> "Ivar"]
Self_ == [type |-> "Self_"]
Begin == [type |-> "Begin"]

\* the constant paths the files use
ConstNodes ==
    { Const(NoNode, "Bar"),                       \* Bar
      Const(Const(NoNode, "Foo"), "Bar"),         \* Foo::Bar
      Const(Cbase, "Foo"),                        \* ::Foo
      Const(Send, "Bar"),                         \* foo::Bar, foo a method
      Const(Begin, "Bar") }                       \* (foo)::Bar

\* Node::Class { name, superclass }; the body is what follows up to its end
Class(name, superclass) == [name |-> name, superclass |-> superclass]

ClassNodes ==
    { Class(Const(NoNode, "Foo"), NoNode),                  \* class Foo
      Class(Const(Const(NoNode, "Foo"), "Bar"), NoNode),    \* class Foo::Bar
      Class(Const(Cbase, "Foo"), NoNode),                   \* class ::Foo
      Class(Const(NoNode, "Foo"), Const(NoNode, "Bar")),    \* class Foo < Bar
      Class(Const(Self_, "Foo"), Const(NoNode, "Bar")),     \* class self::Foo < Bar
      Class(Const(Begin, "Foo"), NoNode) }                  \* class (foo)::Foo

\* Node::Module { name }; the body is what follows up to its end
Module(name) == [name |-> name]

ModuleNodes ==
    { Module(Const(NoNode, "Foo")),                         \* module Foo
      Module(Const(Lvar, "Foo")) }                          \* module foo::Foo, foo a local

\* Node::Casgn { scope, name, value }
Casgn(scope, name, value) == [scope |-> scope, name |-> name, value |-> value]

CasgnNodes ==
    { Casgn(NoNode, "Bar", Const(NoNode, "Foo")),           \* Bar = Foo
      Casgn(Ivar, "Bar", Const(NoNode, "Foo")) }            \* @foo::Bar = Foo

\* Node::Array { elements }
Array(elements) == [elements |-> elements]

ArrayNodes ==
    { Array(<<Const(NoNode, "Foo"), Const(NoNode, "Bar")>>) }   \* [Foo, Bar]

Event(kind, node) == [kind |-> kind, node |-> node]

(***************************************************************************)
(* parser.rs: positions                                                    *)
(*                                                                         *)
(* The parser gives a node its expression_l, the byte range of its text,   *)
(* and LineColLookup turns a byte offset into a row and a column. The      *)
(* files are ASCII text laid out one node per line, indented two spaces    *)
(* per open body, every line closed by "\n". The `end` of a module stands  *)
(* at the indentation of its header. The `end` of a class is moved right   *)
(* by spaces so that the class spans ClassSpan bytes whatever its body     *)
(* holds: the expression_l.end of a class is then known when the class is  *)
(* met, as it is to the visitor, which runs on the finished tree.          *)
(***************************************************************************)
\* Loc { begin, end }
Loc(begin, end) == [begin |-> begin, end |-> end]

\* the node with the expression_l the parser gives it
At(node, expression_l) ==
    [field \in (DOMAIN node) \cup {"expression_l"} |->
        IF field = "expression_l" THEN expression_l ELSE node[field]]

\* the bytes of the text of a constant path or of the expression it hangs off
RECURSIVE TextLen(_)
TextLen(node) ==
    CASE node.type = "None"  -> 0
      [] node.type = "Cbase" -> 0                           \* its "::" is counted below
      [] node.type = "Send"  -> 3                           \* foo
      [] node.type = "Lvar"  -> 3                           \* foo
      [] node.type = "Ivar"  -> 4                           \* @foo
      [] node.type = "Self_" -> 4                           \* self
      [] node.type = "Begin" -> 5                           \* (foo)
      [] node.type = "Const" ->
           (IF node.scope.type = "None" THEN 0 ELSE TextLen(node.scope) + 2) + Len(node.name)

\* `class <name>` or `class <name> < <superclass>`
ClassHeaderLen(node) ==
    6 + TextLen(node.name)
      + (IF node.superclass.type = "None" THEN 0 ELSE 3 + TextLen(node.superclass))

\* `module <name>`
ModuleHeaderLen(node) == 7 + TextLen(node.name)

\* `<name>` or `<scope>::<name>`, the target of a constant assignment
CasgnTargetLen(node) ==
    (IF node.scope.type = "None" THEN 0 ELSE TextLen(node.scope) + 2) + Len(node.name)

\* `<target> = <value>`
CasgnLen(node) == CasgnTargetLen(node) + 3 + TextLen(node.value)

\* `[<element>, <element>` up to the end of the n-th element
RECURSIVE ArrayUpTo(_, _)
ArrayUpTo(elements, n) ==
    IF n = 0 THEN 1
    ELSE ArrayUpTo(elements, n - 1) + (IF n > 1 THEN 2 ELSE 0) + TextLen(elements[n])

\* `[<element>, <element>]`
ArrayLen(node) == ArrayUpTo(node.elements, Len(node.elements)) + 1

\* the bytes of the line of a node, indentation and "\n" apart
LineLen(kind, node) ==
    CASE kind = "const"  -> TextLen(node)
      [] kind = "array"  -> ArrayLen(node)
      [] kind = "class"  -> ClassHeaderLen(node)
      [] kind = "module" -> ModuleHeaderLen(node)
      [] kind = "casgn"  -> CasgnLen(node)

\* no line of a file is longer, "\n" included
LineRoom == 2 * MaxDepth + 24

\* no file holds more nodes
MaxFileNodes == MaxNodes + MaxScopeNodes

\* the bytes a class at this depth spans, from `class` to the end of `end`:
\* room for its header, its `end` and as many nodes as a file holds, each
\* of them a line or a class in its turn
RECURSIVE ClassSpan(_)
ClassSpan(depth) ==
    2 * LineRoom
      + MaxFileNodes * (IF depth + 1 >= MaxDepth
                        THEN LineRoom
                        ELSE 2 * MaxDepth + ClassSpan(depth + 1) + 1)

\* the node as the parser gives it, its text starting at `begin`, inside
\* `depth` open bodies
Placed(kind, node, begin, depth) ==
    CASE kind = "const" -> At(node, Loc(begin, begin + TextLen(node)))
      [] kind = "array" ->
           At([node EXCEPT !.elements =
                  [n \in 1..Len(@) |->
                      At(@[n], Loc(begin + ArrayUpTo(@, n) - TextLen(@[n]),
                                   begin + ArrayUpTo(@, n)))]],
              Loc(begin, begin + ArrayLen(node)))
      [] kind = "class" ->
           At([node EXCEPT !.superclass =
                  IF @.type = "None" THEN @
                  ELSE At(@, Loc(begin + 6 + TextLen(node.name) + 3,
                                 begin + ClassHeaderLen(node)))],
              Loc(begin, begin + ClassSpan(depth)))
      [] kind = "module" -> node
      [] kind = "casgn" ->
           At([node EXCEPT !.value =
                  At(@, Loc(begin + CasgnTargetLen(node) + 3, begin + CasgnLen(node)))],
              Loc(begin, begin + CasgnLen(node)))

\* the start of the line after the `end` of a body `depth` bodies deep that
\* `frame` opened, the text standing at `cursor`
AfterEnd(frame, cursor, depth) ==
    IF frame.kind = "module"
    THEN cursor + 2 * (depth - 1) + 4
    ELSE frame.node.expression_l.end + 1

\* Parser::do_parse and LineColLookup::new on the text of the first n of
\* these nodes: the located nodes, the starts of the lines (the last one
\* that of the line to come) and the bodies left open
RECURSIVE Parse(_, _)
Parse(shapes, n) ==
    IF n = 0 THEN [events |-> <<>>, lookup |-> <<0>>, frames |-> <<>>]
    ELSE LET before == Parse(shapes, n - 1)
             shape == shapes[n]
             cursor == before.lookup[Len(before.lookup)]
             depth == Len(before.frames)
             begin == cursor + 2 * depth
             node == Placed(shape.kind, shape.node, begin, depth)
         IN IF shape.kind = "end"
            THEN [events |-> Append(before.events, shape),
                  lookup |-> Append(before.lookup,
                                    AfterEnd(before.frames[depth], cursor, depth)),
                  frames |-> SubSeq(before.frames, 1, depth - 1)]
            ELSE [events |-> Append(before.events, Event(shape.kind, node)),
                  lookup |-> Append(before.lookup,
                                    begin + LineLen(shape.kind, shape.node) + 1),
                  frames |-> IF shape.kind \in {"class", "module"}
                             THEN Append(before.frames, Event(shape.kind, node))
                             ELSE before.frames]

(***************************************************************************)
(* parser.rs: name resolution                                              *)
(***************************************************************************)
Ok(name) == [tag |-> "Ok", name |-> name]
\* Err(ParseError::Metaprogramming)
Metaprogramming == [tag |-> "Err", name |-> <<>>]
\* panic!("Cannot handle other node in get_constant_node_name")
CannotHandle == [tag |-> "Panic", name |-> <<>>]

\* format!("{}::{}", parent, name)
Scoped(parent, name) == parent \o <<"::">> \o name

RECURSIVE fetch_const_name(_)
\* fetch_const_const_name(node: &nodes::Const)
fetch_const_const_name(node) ==
    IF node.scope.type # "None"
    THEN LET parent_namespace == fetch_const_name(node.scope)
         IN IF parent_namespace.tag # "Ok"
            THEN parent_namespace
            ELSE Ok(Scoped(parent_namespace.name, <<node.name>>))
    ELSE Ok(<<node.name>>)

\* fetch_const_name(node: &nodes::Node)
fetch_const_name(node) ==
    CASE node.type = "Const" -> fetch_const_const_name(node)
      [] node.type = "Cbase" -> Ok(<<>>)
      [] node.type = "Send"  -> Metaprogramming
      [] node.type = "Lvar"  -> Metaprogramming
      [] node.type = "Ivar"  -> Metaprogramming
      [] node.type = "Self_" -> Metaprogramming
      [] OTHER -> CannotHandle

\* fetch_casgn_name(node: &nodes::Casgn)
fetch_casgn_name(node) ==
    IF node.scope.type # "None"
    THEN LET parent_namespace == fetch_const_name(node.scope)
         IN IF parent_namespace.tag # "Ok"
            THEN parent_namespace
            ELSE Ok(Scoped(parent_namespace.name, <<node.name>>))
    ELSE Ok(<<node.name>>)

\* [String]::join("::")
RECURSIVE Join(_)
Join(components) ==
    IF components = <<>> THEN <<>>
    ELSE IF Len(components) = 1 THEN components[1]
    ELSE components[1] \o <<"::">> \o Join(Tail(components))

\* A bug of calculate_module_nesting: push instead of insert(0, ..), which
\* gives the nesting outermost first.
RECURSIVE NestingOutermostFirst(_)
NestingOutermostFirst(namespace_nesting) ==
    IF namespace_nesting = <<>> THEN <<>>
    ELSE LET n == Len(namespace_nesting)
         IN NestingOutermostFirst(SubSeq(namespace_nesting, 1, n - 1))
              \o <<Join(namespace_nesting)>>

\* calculate_module_nesting after the first n entries: the nesting built so
\* far and `previous`
RECURSIVE NestingLoop(_, _)
NestingLoop(namespace_nesting, n) ==
    IF n = 0 THEN [nesting |-> <<>>, previous |-> <<>>]
    ELSE LET before == NestingLoop(namespace_nesting, n - 1)
             namespace == namespace_nesting[n]
             new_nesting == IF before.previous = <<>>
                            THEN namespace
                            ELSE Scoped(before.previous, namespace)
         IN [nesting |-> <<new_nesting>> \o before.nesting, previous |-> new_nesting]

\* calculate_module_nesting(namespace_nesting: &[String]) -> Vec<String>
calculate_module_nesting(namespace_nesting) ==
    NestingLoop(namespace_nesting, Len(namespace_nesting)).nesting

(***************************************************************************)
(* parser.rs: ReferenceCollector                                           *)
(***************************************************************************)
\* Location { begin: node.expression_l.begin, end: node.expression_l.end }
Location(node) == [begin |-> node.expression_l.begin, end |-> node.expression_l.end]

\* the ReferenceCollector, and whether a panic unwound the traversal
Collector ==
    [references |-> references,
     definitions |-> definitions,
     current_namespaces |-> current_namespaces,
     panicked |-> FALSE]

\* A bug of on_const: record the reference without its nesting.
on_const_no_nesting(self, node) ==
    LET fetched == fetch_const_const_name(node)
    IN CASE fetched.tag = "Ok" ->
              [self EXCEPT !.references = Append(@,
                  [name |-> fetched.name, module_nesting |-> <<>>, location |-> Location(node)])]
         [] fetched.tag = "Err" -> self
         [] OTHER -> [self EXCEPT !.panicked = TRUE]

\* ReferenceCollector::on_const
on_const(self, node) ==
    LET fetched == fetch_const_const_name(node)
    IN CASE fetched.tag = "Ok" ->
              [self EXCEPT !.references = Append(@,
                  [name |-> fetched.name,
                   module_nesting |-> calculate_module_nesting(self.current_namespaces),
                   location |-> Location(node)])]
         [] fetched.tag = "Err" -> self
         [] OTHER -> [self EXCEPT !.panicked = TRUE]

\* Visitor::visit on an expression: a Const goes to on_const, the other
\* expressions of the files hold no constant
visit(self, node) ==
    IF node.type = "Const" THEN on_const(self, node) ELSE self

\* Visitor::on_array, the default traversal: visit the first n elements in
\* turn, up to a panic
RECURSIVE visit_elements(_, _, _)
visit_elements(self, elements, n) ==
    IF n = 0 THEN self
    ELSE LET before == visit_elements(self, elements, n - 1)
         IN IF before.panicked THEN before ELSE visit(before, elements[n])

on_array(self, node) == visit_elements(self, node.elements, Len(node.elements))

\* A bug of on_class: push the class name before visiting the superclass and
\* recording the definition.
on_class_push_first(self, node) ==
    LET namespace_result == fetch_const_name(node.name)
    IN CASE namespace_result.tag = "Err" -> [collector |-> self, entered |-> FALSE]
         [] namespace_result.tag = "Panic" ->
              [collector |-> [self EXCEPT !.panicked = TRUE], entered |-> FALSE]
         [] OTHER ->
              LET pushed == [self EXCEPT !.current_namespaces = Append(@, namespace_result.name)]
                  visited == IF node.superclass.type # "None"
                             THEN visit(pushed, node.superclass)
                             ELSE pushed
              IN [collector |->
                     [visited EXCEPT !.definitions = Append(@,
                         [fully_qualified_name |-> Join(visited.current_namespaces),
                          location |-> Location(node)])],
                  entered |-> ~visited.panicked]

\* ReferenceCollector::on_class up to the visit of the body: the collector,
\* and whether the body is entered
on_class(self, node) ==
    LET namespace_result == fetch_const_name(node.name)
    IN CASE namespace_result.tag = "Err" -> [collector |-> self, entered |-> FALSE]
         [] namespace_result.tag = "Panic" ->
              [collector |-> [self EXCEPT !.panicked = TRUE], entered |-> FALSE]
         [] OTHER ->
              LET namespace == namespace_result.name
                  visited == IF node.superclass.type # "None"
                             THEN visit(self, node.superclass)
                             ELSE self
                  name_components == Append(visited.current_namespaces, namespace)
                  fully_qualified_name == Join(name_components)
              IN IF visited.panicked
                 THEN [collector |-> visited, entered |-> FALSE]
                 ELSE [collector |->
                          [visited EXCEPT
                              !.definitions = Append(@,
                                  [fully_qualified_name |-> fully_qualified_name,
                                   location |-> Location(node)]),
                              !.current_namespaces = Append(@, namespace)],
                       entered |-> TRUE]

\* A bug of on_casgn: record the bare name, without the enclosing namespaces.
on_casgn_bare(self, node) ==
    LET name_result == fetch_casgn_name(node)
    IN CASE name_result.tag = "Err" -> self
         [] name_result.tag = "Panic" -> [self EXCEPT !.panicked = TRUE]
         [] OTHER ->
              [self EXCEPT !.definitions = Append(@,
                  [fully_qualified_name |-> name_result.name, location |-> Location(node)])]

\* ReferenceCollector::on_casgn
on_casgn(self, node) ==
    LET name_result == fetch_casgn_name(node)
    IN CASE name_result.tag = "Err" -> self
         [] name_result.tag = "Panic" -> [self EXCEPT !.panicked = TRUE]
         [] OTHER ->
              LET name == name_result.name
                  name_components == Append(self.current_namespaces, name)
                  fully_qualified_name == Join(name_components)
              IN [self EXCEPT !.definitions = Append(@,
                     [fully_qualified_name |-> fully_qualified_name,
                      location |-> Location(node)])]

\* A bug of on_module: record a Definition for the module, as on_class does.
on_module_defines(self, node) ==
    LET namespace == fetch_const_name(node.name)
    IN IF namespace.tag # "Ok"
       THEN [self EXCEPT !.panicked = TRUE]
       ELSE [self EXCEPT
                !.definitions = Append(@,
                    [fully_qualified_name |-> Join(Append(self.current_namespaces, namespace.name)),
                     location |-> [begin |-> 0, end |-> 0]]),
                !.current_namespaces = Append(@, namespace.name)]

\* ReferenceCollector::on_module up to the visit of the body; an unresolvable
\* name fails the expect()
on_module(self, node) ==
    LET namespace == fetch_const_name(node.name)
    IN IF namespace.tag # "Ok"
       THEN [self EXCEPT !.panicked = TRUE]
       ELSE [self EXCEPT !.current_namespaces = Append(@, namespace.name)]

\* A bug of on_class / on_module: return without the pop.
pop_forgotten(self) == self

\* self.current_namespaces.pop() once the body is visited
pop(self) ==
    [self EXCEPT !.current_namespaces = SubSeq(@, 1, Len(@) - 1)]

(***************************************************************************)
(* parser.rs: extract_from_contents                                        *)
(***************************************************************************)
\* LineColLookup::get: the 1-based row and column of a byte offset of an
\* ASCII text whose lines start at the offsets `lines`
LineCol(lines, offset) ==
    LET row == Cardinality({ i \in 1..Len(lines) : lines[i] <= offset })
    IN [row |-> row, col |-> offset - lines[row] + 1]

\* Reference::possible_fully_qualified_constants
possible_fully_qualified_constants(self) ==
    [i \in 1..Len(self.module_nesting) |-> Scoped(self.module_nesting[i], self.name)]

\* the Reference made of a ParsedReference
ToReference(lines, parsed_reference) ==
    [name |-> parsed_reference.name,
     module_nesting |-> parsed_reference.module_nesting,
     location |-> [start_row |-> LineCol(lines, parsed_reference.location.begin).row,
                   start_col |-> LineCol(lines, parsed_reference.location.begin).col,
                   end_row |-> LineCol(lines, parsed_reference.location.end).row,
                   end_col |-> LineCol(lines, parsed_reference.location.end).col]]

\* the filter closure: no possible fully qualified constant is defined here
Keeps(def_set, r) ==
    \A i \in 1..Len(r.module_nesting) : possible_fully_qualified_constants(r)[i] \notin def_set

RECURSIVE Filter(_, _)
Filter(refs, def_set) ==
    IF refs = <<>> THEN <<>>
    ELSE IF Keeps(def_set, Head(refs))
         THEN <<Head(refs)>> \o Filter(Tail(refs), def_set)
         ELSE Filter(Tail(refs), def_set)

\* A bug of extract_from_contents: return every collected reference.
extract_unfiltered(lines, refs, defs) ==
    [i \in 1..Len(refs) |-> ToReference(lines, refs[i])]

\* extract_from_contents once the tree is visited
extract_from_contents(lines, refs, defs) ==
    LET def_set == { defs[i].fully_qualified_name : i \in 1..Len(defs) }
    IN Filter([i \in 1..Len(refs) |-> ToReference(lines, refs[i])], def_set)

(***************************************************************************)
(* The traversal of one file                                               *)
(***************************************************************************)
NodeCount == Cardinality({ i \in 1..Len(source) : source[i].kind # "end" })

Top == IF open = <<>> THEN "file" ELSE open[Len(open)].kind

\* the start of the line of the node met next, and its indentation
Cursor == lookup[Len(lookup)]

Indent == 2 * Len(open)

\* the node met next, as the parser gives it
Met(kind, node) == Placed(kind, node, Cursor + Indent, Len(open))

\* the start of the line after that node's
LineAfter(kind, node) == Cursor + Indent + LineLen(kind, node) + 1

\* the traversal is at a node it visits
CanVisit(limit) == phase = "visiting" /\ Top # "skipped" /\ NodeCount < limit

\* the traversal is at a class or module node it visits
CanOpen(limit) == CanVisit(limit) /\ Len(open) < MaxDepth

\* the lexical position is inside a class the visitor did not enter
CanSkip(limit) == phase = "visiting" /\ Top = "skipped" /\ NodeCount < limit

\* the collector after a step, or the panic that ended the traversal
Becomes(self) ==
    IF self.panicked
    THEN /\ phase' = "panic"
         /\ UNCHANGED <<references, definitions, current_namespaces>>
    ELSE /\ phase' = "visiting"
         /\ references' = self.references
         /\ definitions' = self.definitions
         /\ current_namespaces' = self.current_namespaces

OnConst(node) ==
    /\ source' = Append(source, Event("const", Met("const", node)))
    /\ lookup' = Append(lookup, LineAfter("const", node))
    /\ Becomes(on_const(Collector, Met("const", node)))
    /\ UNCHANGED <<open, extracted, pack_vars, scan_vars>>

OnArray(node) ==
    /\ source' = Append(source, Event("array", Met("array", node)))
    /\ lookup' = Append(lookup, LineAfter("array", node))
    /\ Becomes(on_array(Collector, Met("array", node)))
    /\ UNCHANGED <<open, extracted, pack_vars, scan_vars>>

OnClass(node) ==
    LET r == on_class(Collector, Met("class", node))
    IN /\ source' = Append(source, Event("class", Met("class", node)))
       /\ lookup' = Append(lookup, LineAfter("class", node))
       /\ Becomes(r.collector)
       /\ open' = IF r.collector.panicked THEN open
                  ELSE Append(open, Event(IF r.entered THEN "class" ELSE "skipped",
                                          Met("class", node)))
       /\ UNCHANGED <<extracted, pack_vars, scan_vars>>

OnModule(node) ==
    LET r == on_module(Collector, Met("module", node))
    IN /\ source' = Append(source, Event("module", Met("module", node)))
       /\ lookup' = Append(lookup, LineAfter("module", node))
       /\ Becomes(r)
       /\ open' = IF r.panicked THEN open
                  ELSE Append(open, Event("module", Met("module", node)))
       /\ UNCHANGED <<extracted, pack_vars, scan_vars>>

OnCasgn(node) ==
    /\ source' = Append(source, Event("casgn", Met("casgn", node)))
    /\ lookup' = Append(lookup, LineAfter("casgn", node))
    /\ Becomes(on_casgn(Collector, Met("casgn", node)))
    /\ UNCHANGED <<open, extracted, pack_vars, scan_vars>>

\* a node in the body of a class whose name did not resolve: never visited
SkipNode(kind, node) ==
    /\ source' = Append(source, Event(kind, Met(kind, node)))
    /\ lookup' = Append(lookup, LineAfter(kind, node))
    /\ UNCHANGED <<open, current_namespaces, references, definitions, phase, extracted,
                   pack_vars, scan_vars>>

\* the end of the body of a class or module: on_class / on_module pop
EndBody ==
    /\ phase = "visiting" /\ Top \in {"class", "module"}
    /\ source' = Append(source, Event("end", NoNode))
    /\ lookup' = Append(lookup, AfterEnd(open[Len(open)], Cursor, Len(open)))
    /\ open' = SubSeq(open, 1, Len(open) - 1)
    /\ Becomes(pop(Collector))
    /\ UNCHANGED <<extracted, pack_vars, scan_vars>>

\* the end of a class whose name did not resolve: on_class returned long ago
EndSkipped ==
    /\ phase = "visiting" /\ Top = "skipped"
    /\ source' = Append(source, Event("end", NoNode))
    /\ lookup' = Append(lookup, AfterEnd(open[Len(open)], Cursor, Len(open)))
    /\ open' = SubSeq(open, 1, Len(open) - 1)
    /\ UNCHANGED <<current_namespaces, references, definitions, phase, extracted,
                   pack_vars, scan_vars>>

\* the end of the file: collector.visit(&ast) returns and the references are
\* filtered
Finish ==
    /\ phase = "visiting" /\ open = <<>>
    /\ extracted' = extract_from_contents(lookup, references, definitions)
    /\ phase' = "done"
    /\ UNCHANGED <<source, lookup, open, current_namespaces, references, definitions,
                   pack_vars, scan_vars>>

ParserInit ==
    /\ input_packs = {}
    /\ input_files = EmptyMap
    /\ built = "no"
    /\ pack_set = DefaultPackSet
    /\ last = NoCall
    /\ ParserIdle
    /\ ScanIdle

\* files of every kind of node
ParserNext ==
    \/ CanVisit(MaxNodes) /\ \E node \in ConstNodes : OnConst(node)
    \/ CanVisit(MaxNodes) /\ \E node \in ArrayNodes : OnArray(node)
    \/ CanOpen(MaxNodes) /\ \E node \in ClassNodes : OnClass(node)
    \/ CanOpen(MaxNodes) /\ \E node \in ModuleNodes : OnModule(node)
    \/ CanVisit(MaxNodes) /\ \E node \in CasgnNodes : OnCasgn(node)
    \/ CanSkip(MaxNodes) /\ \E node \in ConstNodes : SkipNode("const", node)
    \/ CanSkip(MaxNodes) /\ \E node \in CasgnNodes : SkipNode("casgn", node)
    \/ EndBody
    \/ EndSkipped
    \/ Finish

ParserSpec == ParserInit /\ [][ParserNext]_vars

\* the nodes of ScopeSpec: every name resolves, so every body is visited
ScopeConstNodes == { Const(NoNode, "Bar") }

ScopeClassNodes ==
    { Class(Const(NoNode, "Foo"), NoNode),
      Class(Const(NoNode, "Bar"), NoNode),
      Class(Const(Const(NoNode, "Foo"), "Bar"), NoNode) }

ScopeModuleNodes == { Module(Const(NoNode, "Foo")) }

ScopeCasgnNodes == { Casgn(NoNode, "Bar", Const(NoNode, "Foo")) }

\* deeper files whose names all resolve
ScopeNext ==
    \/ CanVisit(MaxScopeNodes) /\ \E node \in ScopeConstNodes : OnConst(node)
    \/ CanOpen(MaxScopeNodes) /\ \E node \in ScopeClassNodes : OnClass(node)
    \/ CanOpen(MaxScopeNodes) /\ \E node \in ScopeModuleNodes : OnModule(node)
    \/ CanVisit(MaxScopeNodes) /\ \E node \in ScopeCasgnNodes : OnCasgn(node)
    \/ EndBody
    \/ Finish

ScopeSpec == ParserInit /\ [][ScopeNext]_vars

(***************************************************************************)
(* Properties of the Reference & Definition Extractor                      *)
(***************************************************************************)
\* C8: a reference recorded while the namespace stack is [n1, ..., nk] gets
\* a module_nesting of length k, innermost first, whose entry i is the
\* "::"-join of the first k-i+1 stack entries (empty for an empty stack).
\* The stack a step records under is the one it starts with: on_const pushes
\* nothing, and on_class visits the superclass before it pushes.
C8_NestingInnermostFirst ==
    [][ Len(references') > Len(references) =>
          LET r == references'[Len(references')]
              k == Len(current_namespaces)
          IN /\ Len(r.module_nesting) = k
             /\ \A i \in 1..k :
                   r.module_nesting[i] = Join(SubSeq(current_namespaces, 1, k - i + 1)) ]_vars

C8_Witness ==
    /\ [i \in 1..Len(open) |-> open[i].kind] = <<"class", "module", "class">>
    /\ Len(current_namespaces[1]) > 1
    /\ references # <<>>
    /\ references[Len(references)].module_nesting =
          << <<"Foo", "::", "Bar", "::", "Foo", "::", "Bar">>,
             <<"Foo", "::", "Bar", "::", "Foo">>,
             <<"Foo", "::", "Bar">> >>

\* the file `class <name>; end`, for a class name that resolves
EmptyClassFile(node) ==
    /\ node.superclass.type = "None"
    /\ fetch_const_name(node.name).tag = "Ok"
    /\ Len(source) = 2
    /\ source[1].kind = "class"
    /\ source[1].node.name = node.name
    /\ source[1].node.superclass = node.superclass
    /\ source[2].kind = "end"

\* C9 as claimed: `class Foo; end` yields exactly one Reference, the class
\* name itself, with the (empty) nesting of the enclosing scope.
C9_ClassNameIsAReference ==
    \A node \in ClassNodes :
        (phase = "done" /\ EmptyClassFile(node)) =>
            /\ Len(extracted) = 1
            /\ extracted[1].name = fetch_const_name(node.name).name
            /\ extracted[1].module_nesting = <<>>

\* the names of the class/module bodies a prefix of the file leaves open
\* (every name of the prefix resolves)
RECURSIVE LexicalScope(_)
LexicalScope(prefix) ==
    IF prefix = <<>> THEN <<>>
    ELSE LET before == LexicalScope(SubSeq(prefix, 1, Len(prefix) - 1))
             event == prefix[Len(prefix)]
         IN CASE event.kind \in {"class", "module"} ->
                   Append(before, fetch_const_name(event.node.name).name)
              [] event.kind = "end" -> SubSeq(before, 1, Len(before) - 1)
              [] OTHER -> before

\* the scope the i-th event of the file is in
ScopeOf(i) == LexicalScope(SubSeq(source, 1, i - 1))

IsPrefix(s, t) == Len(s) <= Len(t) /\ SubSeq(t, 1, Len(s)) = s

\* the i-th event defines the bare name `name` in its scope: NAME = value, or
\* class NAME
DefinesBare(i, name) ==
    \/ source[i].kind = "casgn" /\ source[i].node.scope.type = "None"
                                /\ source[i].node.name = name
    \/ source[i].kind = "class" /\ source[i].node.name.scope.type = "None"
                                /\ source[i].node.name.name = name

\* the i-th event is a reference by the bare name `name`
RefersBare(i, name) ==
    source[i].kind = "const" /\ source[i].node.scope.type = "None"
                             /\ source[i].node.name = name

\* the reference of the i-th event, a line of its own, is among those returned
Returned(i) ==
    \E j \in 1..Len(extracted) : extracted[j].location.start_row = i

\* a definition of `name` at event d whose scope encloses (or is) the scope
\* of a bare reference to `name` at event r
LocalPair(d, r, name) ==
    /\ DefinesBare(d, name)
    /\ RefersBare(r, name)
    /\ IsPrefix(ScopeOf(d), ScopeOf(r))

\* C10 as claimed: for every scope S, the top level included, a bare
\* reference to a name defined in S, made in S or in a scope nested in S, is
\* not returned.
C10_LocalFilteredEverywhere ==
    phase = "done" =>
        \A d, r \in 1..Len(source), name \in {"Foo", "Bar"} :
            LocalPair(d, r, name) => ~Returned(r)

\* C10, amended: for every class/module scope S (not the top level), a bare
\* reference to a name defined in S, made in S or in a scope nested in S, is
\* not returned.
C10_LocalFilteredInScopes ==
    phase = "done" =>
        \A d, r \in 1..Len(source), name \in {"Foo", "Bar"} :
            (LocalPair(d, r, name) /\ ScopeOf(d) # <<>>) => ~Returned(r)

C10_Witness ==
    /\ phase = "done"
    /\ \E d, r \in 1..Len(source) :
          /\ LocalPair(d, r, "Bar")
          /\ source[d].kind = "casgn"
          /\ ScopeOf(d) # <<>>
          /\ Len(ScopeOf(r)) > Len(ScopeOf(d))
          /\ ~Returned(r)
    /\ Len(references) > Len(extracted)

\* the expression a constant path hangs off: the innermost scope of the node
RECURSIVE ScopeRoot(_)
ScopeRoot(node) ==
    IF node.type = "Const" /\ node.scope.type # "None" THEN ScopeRoot(node.scope) ELSE node

\* the constant path hangs off a non-constant expression
HasDynamicScope(node) == ScopeRoot(node).type \notin {"Const", "Cbase"}

\* a ParsedReference was recorded for the expression of this node
RecordedAt(node) ==
    \E j \in 1..Len(references) : references[j].location = Location(node)

\* a ParsedDefinition was recorded for this node
DefinedAt(node) ==
    \E j \in 1..Len(definitions) : definitions[j].location = Location(node)

LastEvent == source[Len(source)]

\* C11 as claimed: a constant path whose scope is any non-constant expression
\* resolves to the unresolvable outcome: the constant-reference node records
\* no Reference, raises no error, and the traversal goes on.
C11_DynamicScopeNeverFatal ==
    /\ \A i \in 1..Len(source) :
          (source[i].kind = "const" /\ HasDynamicScope(source[i].node)) =>
              /\ fetch_const_const_name(source[i].node).tag = "Err"
              /\ ~RecordedAt(source[i].node)
    /\ (source # <<>> /\ LastEvent.kind = "const" /\ HasDynamicScope(LastEvent.node))
          => phase # "panic"

\* a name of one or more identifiers joined by single "::" separators
ValidName(name) ==
    /\ Len(name) % 2 = 1
    /\ \A i \in 1..Len(name) : (name[i] = "::") <=> (i % 2 = 0)

\* C12 as claimed: every module_nesting entry of every reference is a valid
\* fully-qualified name: non-empty segments joined by single "::", with no
\* leading or doubled separator, also under `class ::Foo`.
C12_NestingEntriesValid ==
    \A j \in 1..Len(references) :
        \A i \in 1..Len(references[j].module_nesting) :
            ValidName(references[j].module_nesting[i])

(***************************************************************************)
(* The lexical structure of a file, read off its nodes alone               *)
(***************************************************************************)
\* the nodes whose visit has returned or is under way: all but one whose
\* visit panicked
Settled == IF phase = "panic" THEN SubSeq(source, 1, Len(source) - 1) ELSE source

\* The scopes of a file after a run of its nodes: `scope` is the names of
\* the class/module bodies the position is in, outermost first, and `frames`
\* holds, per open class/module node, the scope it was met in and whether
\* it is opaque: a class whose name is unresolvable, or a node inside one.
RECURSIVE Walk(_)
Walk(events) ==
    IF events = <<>> THEN [scope |-> <<>>, frames |-> <<>>]
    ELSE LET before == Walk(SubSeq(events, 1, Len(events) - 1))
             e == events[Len(events)]
             inside == before.frames # <<>> /\ before.frames[Len(before.frames)].opaque
         IN CASE e.kind = "end" ->
                   [scope |-> before.frames[Len(before.frames)].entry,
                    frames |-> SubSeq(before.frames, 1, Len(before.frames) - 1)]
              [] e.kind \in {"class", "module"} ->
                   IF inside \/ fetch_const_name(e.node.name).tag # "Ok"
                   THEN [scope |-> before.scope,
                         frames |-> Append(before.frames,
                                           [opaque |-> TRUE, entry |-> before.scope])]
                   ELSE [scope |-> Append(before.scope, fetch_const_name(e.node.name).name),
                         frames |-> Append(before.frames,
                                           [opaque |-> FALSE, entry |-> before.scope])]
              [] OTHER -> before

\* the position after these nodes is inside a class whose name is unresolvable
InOpaque(events) ==
    LET w == Walk(events)
    IN w.frames # <<>> /\ w.frames[Len(w.frames)].opaque

\* the scope node i of the file is met in
ScopeAt(i) == Walk(SubSeq(source, 1, i - 1)).scope

\* node i of the file is one the traversal visits
Visited(i) == ~InOpaque(SubSeq(source, 1, i - 1))

\* node i of the file is a visited class whose name is unresolvable
UnresolvableClass(i) ==
    /\ source[i].kind = "class"
    /\ Visited(i)
    /\ fetch_const_name(source[i].node.name).tag = "Err"

\* node i of the file is a class with a superclass, whose expression the
\* reference r was made of
SuperclassOf(i, r) ==
    /\ source[i].kind = "class"
    /\ source[i].node.superclass.type = "Const"
    /\ r.location = Location(source[i].node.superclass)

\* C14: the reference made of the superclass expression of a class with a
\* resolvable name carries the module_nesting of the scope the class is met
\* in: as many entries as enclosing scopes, the first one the enclosing
\* scope's name, never the class's own fully-qualified name.
C14_SuperclassInEnclosingScope ==
    \A j \in 1..Len(references) :
        \A i \in 1..Len(source) :
            LET r == references[j]
                scope == ScopeAt(i)
                own == Append(scope, fetch_const_name(source[i].node.name).name)
            IN SuperclassOf(i, r) =>
                  /\ Len(r.module_nesting) = Len(scope)
                  /\ scope # <<>> => r.module_nesting[1] = Join(scope)
                  /\ r.module_nesting # <<>> => r.module_nesting[1] # Join(own)

\* a superclass reference of a class inside a scope, the class body open
C14_Witness ==
    \E j \in 1..Len(references) :
        \E i \in 1..Len(source) :
            /\ SuperclassOf(i, references[j])
            /\ references[j].module_nesting # <<>>
            /\ Len(current_namespaces) = Len(references[j].module_nesting) + 1

\* what the step of a node leaves alone when the node is not visited
CollectorUnchanged ==
    /\ references' = references
    /\ definitions' = definitions
    /\ current_namespaces' = current_namespaces
    /\ phase' = "visiting"

\* a class whose name is unresolvable was closed before the position
SomeUnresolvableClassClosed ==
    \E i \in 1..Len(source) :
        /\ UnresolvableClass(i)
        /\ \E k \in (i + 1)..Len(source) :
              /\ source[k].kind = "end"
              /\ Len(Walk(SubSeq(source, 1, k)).frames) = Len(Walk(SubSeq(source, 1, i - 1)).frames)

C15_Step ==
    LET e == source'[Len(source')]
    IN (Len(source') = Len(source) + 1 /\ phase = "visiting") =>
          \* the class node itself: no Definition, no superclass Reference
          /\ (e.kind = "class" /\ ~InOpaque(source)
                /\ HasDynamicScope(e.node.name)) => CollectorUnchanged
          \* its body, up to and with its end
          /\ InOpaque(source) => CollectorUnchanged
          \* the nodes after it
          /\ (SomeUnresolvableClassClosed /\ ~InOpaque(source) /\ e.kind = "const"
                /\ fetch_const_const_name(e.node).tag = "Ok") =>
                   /\ Len(references') = Len(references) + 1
                   /\ references'[Len(references')].location = Location(e.node)
          /\ (SomeUnresolvableClassClosed /\ ~InOpaque(source) /\ e.kind = "casgn"
                /\ fetch_casgn_name(e.node).tag = "Ok") =>
                   /\ Len(definitions') = Len(definitions) + 1
                   /\ definitions'[Len(definitions')].location = Location(e.node)

\* C15 as claimed: a class node whose name is unresolvable (its path hangs
\* off a non-constant expression) is opaque: its visit and the nodes of its
\* body (its superclass expression too) add no Definition and no Reference,
\* leave the namespace stack as it was and raise no error, and the nodes
\* after the class are visited as ever.
C15_UnresolvableClassOpaque == [][C15_Step]_vars

\* some entry L of the nesting of r makes "L::name" a Definition of the file
Suppressed(r) ==
    \E k \in 1..Len(r.module_nesting) :
        \E d \in 1..Len(definitions) :
            definitions[d].fully_qualified_name = r.module_nesting[k] \o <<"::">> \o r.name

\* the collected references that no Definition of the file suppresses
KeptReferences == { i \in 1..Len(references) : ~Suppressed(references[i]) }

\* the row and column of a byte offset of the file: the row is that of the
\* last line to start at or before it
RowCol(offset) ==
    LET row == CHOOSE i \in 1..Len(lookup) :
                   /\ lookup[i] <= offset
                   /\ \A k \in 1..Len(lookup) : lookup[k] <= offset => k <= i
    IN <<row, offset - lookup[row] + 1>>

\* C16: extract_from_contents returns exactly the collected references that
\* no Definition of the whole file suppresses, in the order they were
\* collected, each at the rows and columns of its byte range; a reference
\* with an empty nesting is always among them.
C16_ReturnsUnsuppressedInOrder ==
    phase = "done" =>
        /\ Len(extracted) = Cardinality(KeptReferences)
        /\ \A i \in KeptReferences :
              LET at == Cardinality({ k \in KeptReferences : k <= i })
                  r == references[i]
              IN /\ extracted[at].name = r.name
                 /\ extracted[at].module_nesting = r.module_nesting
                 /\ extracted[at].location =
                       [start_row |-> RowCol(r.location.begin)[1],
                        start_col |-> RowCol(r.location.begin)[2],
                        end_row |-> RowCol(r.location.end)[1],
                        end_col |-> RowCol(r.location.end)[2]]
        /\ \A i \in 1..Len(references) :
              references[i].module_nesting = <<>> =>
                  \E at \in 1..Len(extracted) :
                      /\ extracted[at].name = references[i].name
                      /\ extracted[at].location.start_row = RowCol(references[i].location.begin)[1]
                      /\ extracted[at].location.start_col = RowCol(references[i].location.begin)[2]

\* a file returned with one reference kept and a later one suppressed by a
\* Definition that follows it
C16_Witness ==
    /\ phase = "done"
    /\ extracted # <<>>
    /\ \E i \in 1..Len(references) :
          /\ \E k \in KeptReferences : k < i
          /\ \E k \in 1..Len(references[i].module_nesting) :
                \E d \in 1..Len(definitions) :
                    /\ definitions[d].location.begin > references[i].location.begin
                    /\ definitions[d].fully_qualified_name =
                          references[i].module_nesting[k] \o <<"::">> \o references[i].name

\* the Definitions of the first n nodes, read off the nodes alone
RECURSIVE DefinitionsOf(_)
DefinitionsOf(n) ==
    IF n = 0 THEN <<>>
    ELSE LET e == source[n]
         IN IF Visited(n) /\ e.kind = "class" /\ fetch_const_name(e.node.name).tag = "Ok"
            THEN Append(DefinitionsOf(n - 1),
                        [fully_qualified_name |->
                             Join(Append(ScopeAt(n), fetch_const_name(e.node.name).name)),
                         location |-> e.node.expression_l])
            ELSE IF Visited(n) /\ e.kind = "casgn" /\ fetch_casgn_name(e.node).tag = "Ok"
            THEN Append(DefinitionsOf(n - 1),
                        [fully_qualified_name |->
                             Join(Append(ScopeAt(n), fetch_casgn_name(e.node).name)),
                         location |-> e.node.expression_l])
            ELSE DefinitionsOf(n - 1)

\* C17: the Definitions collected are exactly one per visited class node
\* with a resolvable name and one per visited constant assignment with a
\* resolvable name, each named by the namespace stack joined with "::" and
\* the resolved name; a module adds none but its name is on the stack while
\* its body is visited, and a constant assignment leaves the stack alone.
C17_DefinitionsExact ==
    /\ definitions = DefinitionsOf(Len(Settled))
    /\ (Settled # <<>> /\ Visited(Len(Settled))) =>
          LET e == Settled[Len(Settled)]
              scope == ScopeAt(Len(Settled))
          IN /\ e.kind = "casgn" => current_namespaces = scope
             /\ e.kind = "module" =>
                   current_namespaces = Append(scope, fetch_const_name(e.node.name).name)

\* a class and a constant assignment inside a module: two Definitions
C17_Witness ==
    /\ Len(source) = 3
    /\ source[1].kind = "module"
    /\ source[2].kind = "class"
    /\ source[3].kind = "casgn"
    /\ Len(definitions) = 2
    /\ Len(definitions[2].fully_qualified_name) = 5
    /\ Len(current_namespaces) = 2

\* C18 as claimed: the constant references of the value of a visited
\* constant assignment are recorded as References with the current module
\* nesting, whether or not the assigned name resolves.
C18_CasgnValueVisited ==
    \A i \in 1..Len(Settled) :
        (/\ source[i].kind = "casgn"
         /\ Visited(i)
         /\ source[i].node.value.type = "Const"
         /\ fetch_const_const_name(source[i].node.value).tag = "Ok") =>
            \E j \in 1..Len(references) :
                /\ references[j].location = Location(source[i].node.value)
                /\ references[j].name = fetch_const_const_name(source[i].node.value).name
                /\ Len(references[j].module_nesting) = Len(ScopeAt(i))

\* C19: the namespace stack is balanced: at every point of the traversal
\* it is the names of the resolvable class/module bodies the position is
\* in, so the return of a class or module visit restores the stack the
\* visit began with, the visit of a constant assignment or reference leaves
\* it as it was, and it is empty when the traversal of the file ends.
C19_StackBalanced ==
    /\ current_namespaces = Walk(Settled).scope
    /\ phase = "done" => current_namespaces = <<>>

\* a file of a class inside a module, traversed to its end
C19_Witness ==
    /\ phase = "done"
    /\ \E i, k \in 1..Len(source) :
          /\ i < k
          /\ source[i].kind = "module"
          /\ source[k].kind = "class" /\ Visited(k)
          /\ Len(ScopeAt(k + 1)) = 2
    /\ current_namespaces = <<>>

(***************************************************************************)
(* parser.rs: get_references, the parallel scan                            *)
(*                                                                         *)
(* glob(..).par_bridge().flat_map(closure).collect(): the worker threads   *)
(* of the pool pull entries off the one glob iterator, each runs the       *)
(* closure on the entry it pulled (extract_from_path on a path, a panic on *)
(* an entry glob could not list), node by node, interleaved with the other *)
(* threads, gathers the Vec it returns into a Vec of its own, and          *)
(* collect() concatenates the threads' Vecs once the iterator is dry. A    *)
(* panic of any closure is a panic of get_references, and so is a root the *)
(* glob pattern cannot be made of. Paths and patterns are the sequences of *)
(* their lexemes.                                                          *)
(***************************************************************************)
\* the roots a scan is asked for: an ordinary directory, one whose name is
\* not UTF-8 (the byte 0xE9), one whose name holds a "[", one named "***"
Roots == { <<"r">>, <<"0xE9">>, <<"[">>, <<"***">> }

\* absolute_root.join("packs/**/*.rb")
PatternOf(root) == root \o <<"/", "packs", "/", "**", "/", "*.rb">>

\* Path::to_str: None for a path that is not valid UTF-8
to_str(path) ==
    IF \E i \in 1..Len(path) : path[i] = "0xE9"
    THEN [tag |-> "None", str |-> <<>>]
    ELSE [tag |-> "Some", str |-> path]

\* glob(pattern): Err(PatternError) for a "[" that is never closed and for
\* a wildcard of three stars
glob(pattern) ==
    IF \/ \E i \in 1..Len(pattern) :
             pattern[i] = "[" /\ \A k \in (i + 1)..Len(pattern) : pattern[k] # "]"
       \/ \E i \in 1..Len(pattern) : pattern[i] = "***"
    THEN [tag |-> "Err"]
    ELSE [tag |-> "Ok"]

\* the pattern of this root cannot be made or is rejected: the unwrap() or
\* the expect() of get_references panics
RootPanics(root) ==
    LET pattern == to_str(PatternOf(root))
    IN pattern.tag = "None" \/ glob(pattern.str).tag = "Err"

\* the texts of the scan, as the nodes they hold: an empty file (no AST), a
\* class with a superclass and a local constant, an array of scoped
\* references, a constant path off a parenthesised expression
Programs ==
    { <<>>,
      << Event("class", Class(Const(NoNode, "Foo"), Const(NoNode, "Bar"))),
         Event("const", Const(NoNode, "Bar")),
         Event("casgn", Casgn(NoNode, "Bar", Const(NoNode, "Foo"))),
         Event("end", NoNode) >>,
      << Event("array", Array(<<Const(Cbase, "Foo"), Const(Const(NoNode, "Foo"), "Bar")>>)) >>,
      << Event("const", Const(NoNode, "Bar")),
         Event("const", Const(Begin, "Bar")) >> }

\* a glob entry that is a path to a file fs::read_to_string reads: its
\* nodes and the starts of its lines
ReadableFile(program) ==
    [kind |-> "file",
     events |-> Parse(program, Len(program)).events,
     lookup |-> Parse(program, Len(program)).lookup]

\* a glob entry that is a path fs::read_to_string fails on: a directory, a
\* file that is gone or is not UTF-8
UnreadableFile == [kind |-> "unreadable", events |-> <<>>, lookup |-> <<0>>]

\* a glob entry that is an Err: a directory glob could not list
UnlistableEntry == [kind |-> "unlistable", events |-> <<>>, lookup |-> <<0>>]

\* what the entries of a scan can be
Entries == { ReadableFile(program) : program \in Programs }
              \cup {UnreadableFile, UnlistableEntry}

\* Visitor::visit on the next node of a file, by a traversal `t` (its
\* collector and its call stack)
visit_event(t, event) ==
    LET top == IF t.open = <<>> THEN "file" ELSE t.open[Len(t.open)]
        front == SubSeq(t.open, 1, Len(t.open) - 1)
    IN CASE event.kind = "end" ->
              IF top = "skipped"
              THEN [t EXCEPT !.open = front]
              ELSE [t EXCEPT !.open = front, !.collector = pop(@)]
         [] event.kind # "end" /\ top = "skipped" ->
              IF event.kind \in {"class", "module"}
              THEN [t EXCEPT !.open = Append(@, "skipped")]
              ELSE t
         [] event.kind = "const" /\ top # "skipped" ->
              [t EXCEPT !.collector = on_const(@, event.node)]
         [] event.kind = "array" /\ top # "skipped" ->
              [t EXCEPT !.collector = on_array(@, event.node)]
         [] event.kind = "class" /\ top # "skipped" ->
              LET r == on_class(t.collector, event.node)
              IN [t EXCEPT !.collector = r.collector,
                           !.open = Append(@, IF r.entered THEN "class" ELSE "skipped")]
         [] event.kind = "module" /\ top # "skipped" ->
              [t EXCEPT !.collector = on_module(@, event.node),
                        !.open = Append(@, "module")]
         [] event.kind = "casgn" /\ top # "skipped" ->
              [t EXCEPT !.collector = on_casgn(@, event.node)]

\* collector.visit(&ast) over the first n nodes of a file, on its own; a
\* panic unwinds the traversal where it is
RECURSIVE Traverse(_, _)
Traverse(events, n) ==
    IF n = 0 THEN [collector |-> NewCollector, open |-> <<>>]
    ELSE LET before == Traverse(events, n - 1)
         IN IF before.collector.panicked THEN before
            ELSE visit_event(before, events[n])

\* the outcome of a call: a panic, or the Vec<Reference> it returns
Panics == [panicked |-> TRUE, references |-> <<>>]

Returns(refs) == [panicked |-> FALSE, references |-> refs]

\* extract_from_path: what one path gives when it is extracted on its own.
\* A failed read panics, a text without an AST gives vec![], a panic of
\* the visit is a panic of the call.
extract_from_path(path) ==
    LET file == contents[path]
        t == Traverse(file.events, Len(file.events))
    IN IF file.kind # "file" THEN Panics
       ELSE IF file.events = <<>> THEN Returns(<<>>)
       ELSE IF t.collector.panicked THEN Panics
       ELSE Returns(extract_from_contents(file.lookup, t.collector.references,
                                          t.collector.definitions))

RECURSIVE Flatten(_)
Flatten(parts) ==
    IF parts = <<>> THEN <<>> ELSE Head(parts) \o Flatten(Tail(parts))

\* A bug of the collection: keep the Vec of one thread only.
collect_first(parts) ==
    IF parts = <<>> THEN <<>> ELSE Head(parts)

\* collect(): the Vecs of the threads, appended in the order they are joined
collect(parts) == Flatten(parts)

\* the orders in which the threads' Vecs may be joined
JoinOrders ==
    { o \in [1..MaxWorkers -> Workers] : \A i, j \in 1..MaxWorkers : o[i] = o[j] => i = j }

\* get_references up to the parallel iterator: the pattern is made of the
\* root and handed to glob, which lists the entries
GetReferences ==
    /\ scan_phase = "called"
    /\ IF RootPanics(absolute_root)
       THEN /\ scan_phase' = "panic"
            /\ UNCHANGED entries
       ELSE /\ scan_phase' = "running"
            /\ entries' = [i \in 1..MaxFiles |-> i]
    /\ UNCHANGED <<absolute_root, contents, task, folded, collected, pack_vars, parser_vars>>

\* a thread takes the next entry off the glob iterator
Pull(w) ==
    /\ scan_phase = "running" /\ task[w].status = "idle" /\ entries # <<>>
    /\ task' = [task EXCEPT ![w] = [IdleTask EXCEPT !.status = "pulled", !.path = Head(entries)]]
    /\ entries' = Tail(entries)
    /\ UNCHANGED <<absolute_root, contents, folded, collected, scan_phase, pack_vars, parser_vars>>

\* the closure up to the visit: an Err entry panics, extract_from_path
\* reads the file or panics, and extract_from_contents parses the text: no
\* AST returns vec![], an AST gets a fresh collector
ReadFile(w) ==
    /\ scan_phase = "running" /\ task[w].status = "pulled"
    /\ IF contents[task[w].path].kind # "file"
       THEN /\ scan_phase' = "panic"
            /\ UNCHANGED task
       ELSE /\ scan_phase' = scan_phase
            /\ task' = [task EXCEPT ![w] =
                          IF contents[task[w].path].events = <<>> THEN IdleTask
                          ELSE [@ EXCEPT !.status = "visiting", !.pc = 1,
                                         !.collector = NewCollector, !.open = <<>>]]
    /\ UNCHANGED <<absolute_root, contents, entries, folded, collected, pack_vars, parser_vars>>

\* the traversal of the thread's file visits its next node; a panic of the
\* visit unwinds the closure and the scan with it
VisitNode(w) ==
    /\ scan_phase = "running" /\ task[w].status = "visiting"
    /\ task[w].pc <= Len(contents[task[w].path].events)
    /\ LET t == visit_event([collector |-> task[w].collector, open |-> task[w].open],
                            contents[task[w].path].events[task[w].pc])
       IN IF t.collector.panicked
          THEN /\ scan_phase' = "panic"
               /\ UNCHANGED task
          ELSE /\ scan_phase' = scan_phase
               /\ task' = [task EXCEPT ![w] =
                             [@ EXCEPT !.pc = @ + 1, !.collector = t.collector,
                                       !.open = t.open]]
    /\ UNCHANGED <<absolute_root, contents, entries, folded, collected, pack_vars, parser_vars>>

\* extract_from_contents filters and returns, and the thread gathers the Vec
Return(w) ==
    /\ scan_phase = "running" /\ task[w].status = "visiting"
    /\ task[w].pc > Len(contents[task[w].path].events)
    /\ folded' = [folded EXCEPT ![w] =
                     @ \o extract_from_contents(contents[task[w].path].lookup,
                                                task[w].collector.references,
                                                task[w].collector.definitions)]
    /\ task' = [task EXCEPT ![w] = IdleTask]
    /\ UNCHANGED <<absolute_root, contents, entries, collected, scan_phase, pack_vars, parser_vars>>

\* the iterator is dry and every closure has returned: collect() joins
Collect(order) ==
    /\ collected' = collect([i \in 1..MaxWorkers |-> folded[order[i]]])
    /\ scan_phase' = "done"
    /\ UNCHANGED <<absolute_root, contents, entries, task, folded, pack_vars, parser_vars>>

CanCollect ==
    /\ scan_phase = "running" /\ entries = <<>>
    /\ \A w \in Workers : task[w].status = "idle"

GetReferencesInit ==
    /\ input_packs = {}
    /\ input_files = EmptyMap
    /\ built = "no"
    /\ pack_set = DefaultPackSet
    /\ last = NoCall
    /\ ParserIdle
    /\ absolute_root \in Roots
    /\ contents \in [Paths -> Entries]
    /\ entries = <<>>
    /\ task = [w \in Workers |-> IdleTask]
    /\ folded = [w \in Workers |-> <<>>]
    /\ collected = <<>>
    /\ scan_phase = "called"

GetReferencesNext ==
    \/ GetReferences
    \/ \E w \in Workers : Pull(w)
    \/ \E w \in Workers : ReadFile(w)
    \/ \E w \in Workers : VisitNode(w)
    \/ \E w \in Workers : Return(w)
    \/ CanCollect /\ \E order \in JoinOrders : Collect(order)

GetReferencesSpec == GetReferencesInit /\ [][GetReferencesNext]_vars

(***************************************************************************)
(* Properties of the parallel scan                                         *)
(***************************************************************************)
\* how many times a value occurs in a sequence
Occurrences(x, seq) == Cardinality({ i \in 1..Len(seq) : seq[i] = x })

\* how many times a Reference occurs in the results of the first n files,
\* each extracted on its own
RECURSIVE OccurrencesInFiles(_, _)
OccurrencesInFiles(x, n) ==
    IF n = 0 THEN 0
    ELSE OccurrencesInFiles(x, n - 1) + Occurrences(x, extract_from_path(n).references)

\* the References some file gives
ReferencesOfFiles ==
    UNION { { extract_from_path(path).references[i] :
                 i \in 1..Len(extract_from_path(path).references) } : path \in Paths }

\* the closure panics on this entry when it is run on its own
FailsAlone(path) == extract_from_path(path).panicked

\* C13: with all files readable, under every interleaving of the per-file
\* tasks, the list get_references returns holds every Reference exactly as
\* many times as the files' own extraction results do together: nothing is
\* lost, duplicated or altered, no task sees another task's state. The
\* interleaving adds no failure either: get_references panics only when
\* the root gives no pattern or the extraction of some entry panics on its
\* own, and returns only when neither does.
C13_CollectedIsUnionOfFiles ==
    /\ scan_phase = "done" =>
          /\ ~RootPanics(absolute_root)
          /\ \A path \in Paths : ~FailsAlone(path)
          /\ \A i \in 1..Len(collected) : collected[i] \in ReferencesOfFiles
          /\ \A x \in ReferencesOfFiles :
                Occurrences(x, collected) = OccurrencesInFiles(x, MaxFiles)
    /\ scan_phase = "panic" =>
          RootPanics(absolute_root) \/ \E path \in Paths : FailsAlone(path)

\* get_references returned what two threads gathered, a Reference that two
\* files give among it, in an order other than that of the paths
C13_Witness ==
    /\ scan_phase = "done"
    /\ \A w \in Workers : folded[w] # <<>>
    /\ \E x \in ReferencesOfFiles : Occurrences(x, collected) >= 2
    /\ collected # Flatten([i \in 1..MaxFiles |-> extract_from_path(i).references])

====
